---- MODULE Spec2Model ----
(***************************************************************************)
(* A model of wca/platforms.py: the parsers of the kernel's pseudo-files   *)
(* (list format, /proc/stat, /proc/meminfo, /proc/cpuinfo, the NUMA node   *)
(* directories, resctrl) and the assembly of a Platform from them.         *)
(*                                                                         *)
(* A Python str is a sequence of one-character strings, so that split,     *)
(* strip, startswith, int() and str() are computed and not assumed.        *)
(* A call that may raise returns a record [exc |-> name, val |-> value];   *)
(* exc = "" is a normal return.                                            *)
(***************************************************************************)
EXTENDS Integers, Sequences, FiniteSets, TLC

VARIABLES
    pc,                     \* position of the call under study
    ints,                   \* encode_listformat's argument
    value,                  \* decode_listformat's argument
    cores,                  \* decode_listformat's outcome
    kstat,                  \* the kernel's per-CPU time counters behind /proc/stat
    proc_stat_output,       \* what read_proc_stat returned
    cpus_usage,             \* parse_proc_stat's outcome
    kmem,                   \* the kernel's memory counters behind /proc/meminfo
    proc_meminfo_output,    \* what read_proc_meminfo returned
    total_memory_used,      \* parse_proc_meminfo's outcome
    cpuinfo,                \* the kernel's processor records behind /proc/cpuinfo
    procinfo,               \* the text collect_topology_information read
    topology_out,           \* collect_topology_information's outcome
    resctrl,                \* the files under /sys/fs/resctrl
    rdt_information,        \* _collect_rdt_information's outcome
    sysfs_nodes,            \* the kernel's NUMA nodes behind /sys/devices/system/node
    node_meminfo,           \* parse_node_meminfo's outcome
    node_cpus,              \* parse_node_cpus's outcome
    rdt_enabled,            \* collect_platform_information's argument
    platform,               \* the Platform built
    platform_metrics,       \* create_metrics's outcome
    labels,                 \* create_labels's outcome
    result                  \* what collect_platform_information returned or raised

codecVars == <<ints, value, cores>>
statVars == <<kstat, proc_stat_output, cpus_usage>>
memVars == <<kmem, proc_meminfo_output, total_memory_used>>
topoVars == <<cpuinfo, procinfo, topology_out>>
rdtVars == <<resctrl, rdt_information>>
numaVars == <<sysfs_nodes, node_meminfo, node_cpus>>
asmVars == <<rdt_enabled, platform, platform_metrics, labels, result>>
vars == <<pc, codecVars, statVars, memVars, topoVars, rdtVars, numaVars, asmVars>>

\* What each specification leaves alone.
otherThanCodec == <<statVars, memVars, topoVars, rdtVars, numaVars, asmVars>>
otherThanStat == <<codecVars, memVars, topoVars, rdtVars, numaVars, asmVars>>
otherThanMem == <<codecVars, statVars, topoVars, rdtVars, numaVars, asmVars>>
otherThanTopo == <<codecVars, statVars, memVars, rdtVars, numaVars, asmVars>>
otherThanRdt == <<codecVars, statVars, memVars, topoVars, numaVars, asmVars>>
otherThanNuma == <<codecVars, statVars, memVars, topoVars, rdtVars, asmVars>>
otherThanAsm == <<codecVars, statVars, memVars, topoVars, rdtVars, numaVars>>

----------------------------------------------------------------------------
(* Bounds of the model. *)

MaxInt == 11
MaxTokens == 2
MaxStatCpus == 2
MaxMemBlocks == 2
MaxRecords == 3
MaxClosids == 3
MaxNodeBlocks == 2
MaxMetricCpus == 3

----------------------------------------------------------------------------
(* Python's str and int, as the parsers use them. *)

Digits == <<"0", "1", "2", "3", "4", "5", "6", "7", "8", "9">>

IsDigit(c) == \E i \in 1..10 : Digits[i] = c

DigitVal(c) == (CHOOSE i \in 1..10 : Digits[i] = c) - 1

IsSpace(c) == c \in {" ", "\t", "\n"}

\* str(n) of an int.
RECURSIVE StrNat(_)
StrNat(n) == IF n < 10 THEN <<Digits[n + 1]>>
             ELSE StrNat(n \div 10) \o <<Digits[(n % 10) + 1]>>

Str(n) == IF n < 0 THEN <<"-">> \o StrNat(0 - n) ELSE StrNat(n)

\* s.strip()
RECURSIVE LStrip(_)
LStrip(s) == IF s # <<>> /\ IsSpace(Head(s)) THEN LStrip(Tail(s)) ELSE s

RECURSIVE RStrip(_)
RStrip(s) == IF s # <<>> /\ IsSpace(s[Len(s)])
             THEN RStrip(SubSeq(s, 1, Len(s) - 1)) ELSE s

Strip(s) == RStrip(LStrip(s))

AllDigits(s) == s # <<>> /\ \A i \in 1..Len(s) : IsDigit(s[i])

RECURSIVE NatVal(_)
NatVal(s) == IF s = <<>> THEN 0
             ELSE 10 * NatVal(SubSeq(s, 1, Len(s) - 1)) + DigitVal(s[Len(s)])

\* int(s) accepts surrounding whitespace, one optional sign and decimal digits
\* (the '_' digit separators of Python 3.6 are outside every alphabet used here).
Unsigned(s) == IF s # <<>> /\ Head(s) \in {"+", "-"} THEN Tail(s) ELSE s

IntOk(s) == AllDigits(Unsigned(Strip(s)))

IntVal(s) == LET t == Strip(s)
             IN  IF Head(t) = "-" THEN 0 - NatVal(Tail(t)) ELSE NatVal(Unsigned(t))

\* s.startswith(p)
StartsWith(s, p) == Len(s) >= Len(p) /\ SubSeq(s, 1, Len(p)) = p

\* p in s
Contains(s, p) == \E i \in 1..(Len(s) - Len(p) + 1) : SubSeq(s, i, i + Len(p) - 1) = p

\* s.split(sep) for a separator of one or more characters: every occurrence,
\* found from the left, splits, and empty pieces are kept.
Occurs(s, sep, i) == i + Len(sep) - 1 <= Len(s) /\ SubSeq(s, i, i + Len(sep) - 1) = sep

RECURSIVE Split(_, _)
Split(s, sep) ==
    IF \A i \in 1..Len(s) : ~Occurs(s, sep, i) THEN <<s>>
    ELSE LET i == CHOOSE k \in 1..Len(s) :
                      Occurs(s, sep, k) /\ \A j \in 1..(k - 1) : ~Occurs(s, sep, j)
         IN  <<SubSeq(s, 1, i - 1)>> \o Split(SubSeq(s, i + Len(sep), Len(s)), sep)

\* s.split(): runs of whitespace separate, and no piece is empty.
RECURSIVE SplitWs(_)
SplitWs(s) ==
    IF \A i \in 1..Len(s) : IsSpace(s[i]) THEN <<>>
    ELSE LET b == CHOOSE k \in 1..Len(s) :
                      ~IsSpace(s[k]) /\ \A j \in 1..(k - 1) : IsSpace(s[j])
             e == CHOOSE k \in b..Len(s) :
                      /\ \A j \in b..k : ~IsSpace(s[j])
                      /\ (k = Len(s) \/ IsSpace(s[k + 1]))
         IN  <<SubSeq(s, b, e)>> \o SplitWs(SubSeq(s, e + 1, Len(s)))

\* sep.join(parts)
RECURSIVE Join(_, _)
Join(sep, parts) ==
    IF parts = <<>> THEN <<>>
    ELSE IF Len(parts) = 1 THEN parts[1]
    ELSE parts[1] \o sep \o Join(sep, Tail(parts))

\* sorted(S) of a set of ints.
RECURSIVE SortedSet(_)
SortedSet(S) ==
    IF S = {} THEN <<>>
    ELSE LET m == CHOOSE x \in S : \A y \in S : x <= y
         IN  <<m>> \o SortedSet(S \ {m})

\* map(str, seq)
StrEach(seq) == [i \in 1..Len(seq) |-> Str(seq[i])]

Return(v) == [exc |-> "", val |-> v]
Raise(e) == [exc |-> e, val |-> {}]

\* An Optional value: None, or the value.
None == <<>>
Some(v) == <<v>>

\* A dict is the sequence of its <<key, value>> items in insertion order;
\* d[k] = v replaces the value of a key already there and appends a new one.
DictKeys(d) == { d[i][1] : i \in 1..Len(d) }

DictGet(d, k) == d[CHOOSE i \in 1..Len(d) : d[i][1] = k][2]

DictSet(d, k, v) ==
    IF k \in DictKeys(d)
    THEN [i \in 1..Len(d) |-> IF d[i][1] = k THEN <<k, v>> ELSE d[i]]
    ELSE Append(d, <<k, v>>)

\* The characters of the words the parsers look for.
S_cpu == <<"c", "p", "u">>
S_MemTotal == <<"M", "e", "m", "T", "o", "t", "a", "l">>
S_MemFree == <<"M", "e", "m", "F", "r", "e", "e">>
S_MemAvailable == <<"M", "e", "m", "A", "v", "a", "i", "l", "a", "b", "l", "e">>
S_MemUsed == <<"M", "e", "m", "U", "s", "e", "d">>
S_Buffers == <<"B", "u", "f", "f", "e", "r", "s">>
S_Cached == <<"C", "a", "c", "h", "e", "d">>
S_SwapCached == <<"S", "w", "a", "p">> \o S_Cached
S_kB == <<"k", "B">>
S_processor == <<"p", "r", "o", "c", "e", "s", "s", "o", "r">>
S_physical_id == <<"p", "h", "y", "s", "i", "c", "a", "l", " ", "i", "d">>
S_core_id == <<"c", "o", "r", "e", " ", "i", "d">>
S_model_name == <<"m", "o", "d", "e", "l", " ", "n", "a", "m", "e">>
S_unknown_cpu_model == <<"u", "n", "k", "n", "o", "w", "n", "_", "c", "p", "u", "_",
                         "m", "o", "d", "e", "l">>
TAB == <<"\t">>
NL == <<"\n">>
SP == <<" ">>

----------------------------------------------------------------------------
(* decode_listformat and encode_listformat. *)

\* The body of "for r in ranges": the first token that raises ends the call.
RECURSIVE DecodeTokens(_, _)
DecodeTokens(ranges, acc) ==
    IF ranges = <<>> THEN Return(acc)
    ELSE LET boundaries == Split(Head(ranges), <<"-">>)
         IN  IF Len(boundaries) = 1
             THEN IF IntOk(boundaries[1])
                  THEN DecodeTokens(Tail(ranges), acc \cup {IntVal(boundaries[1])})
                  ELSE Raise("ValueError")
             ELSE IF Len(boundaries) = 2
             THEN IF ~IntOk(boundaries[1]) \/ ~IntOk(boundaries[2])
                  THEN Raise("ValueError")
                  ELSE DecodeTokens(Tail(ranges),
                           acc \cup (IntVal(boundaries[1])..IntVal(boundaries[2])))
             ELSE DecodeTokens(Tail(ranges), acc)

\* None and "" are both falsy: the empty sequence stands for either.
decode_listformat(v) ==
    IF v = <<>> THEN Return({})
    ELSE DecodeTokens(Split(v, <<",">>), {})

\* A range encoder that keeps only the ends of the set.
encode_listformat_ends(S) ==
    IF Cardinality(S) <= 1 THEN Join(<<",">>, StrEach(SortedSet(S)))
    ELSE Str(SortedSet(S)[1]) \o <<"-">> \o Str(SortedSet(S)[Cardinality(S)])

encode_listformat(S) == Join(<<",">>, StrEach(SortedSet(S)))

----------------------------------------------------------------------------
(* The codec applied to sets of ints and to list-format text. *)

Tokens == { <<>>, <<"0">>, <<"3">>, <<"1", "2">>, <<" ", "7", " ">>,
            <<"2", "-", "4">>, <<"4", "-", "2">>, <<"1", "-", "2", "-", "3">>,
            <<"-", "-">>, <<"-", "1">>, <<"1", "-">>, <<"a">>,
            <<"1", "-", "a">>, <<"3", " ", "-", " ", "5">> }

TokenLists == UNION { [1..n -> Tokens] : n \in 0..MaxTokens }

Texts == { Join(<<",">>, ts) : ts \in TokenLists }

\* The variables of the calls a specification does not study stay as they are here.
IdleCodec == ints = {} /\ value = <<>> /\ cores = Return({})
IdleStat == kstat = <<>> /\ proc_stat_output = <<>> /\ cpus_usage = Return(<<>>)
IdleMem == kmem = <<>> /\ proc_meminfo_output = <<>> /\ total_memory_used = Return(0)
IdleTopo == cpuinfo = <<>> /\ procinfo = <<>> /\ topology_out = Return(<<>>)
IdleRdt == resctrl = [p \in {} |-> <<>>] /\ rdt_information = Return(<<>>)
IdleNuma == sysfs_nodes = [n \in {} |-> <<>>] /\ node_meminfo = Return(<<>>) /\ node_cpus = Return(<<>>)
IdleAsm ==
    /\ rdt_enabled = FALSE /\ platform = <<>> /\ platform_metrics = <<>> /\ labels = <<>>
    /\ result = [exc |-> "", val |-> <<>>]

InitCodec ==
    /\ IdleStat /\ IdleMem /\ IdleTopo /\ IdleRdt /\ IdleNuma /\ IdleAsm
    /\ cores = Return({})
    /\ \/ pc = "ints" /\ ints \in SUBSET (0..MaxInt) /\ value = <<>>
       \/ pc = "text" /\ ints = {} /\ value \in Texts

EncodeListformat ==
    /\ pc = "ints"
    /\ value' = encode_listformat(ints)
    /\ pc' = "encoded"
    /\ UNCHANGED <<ints, cores, otherThanCodec>>

DecodeListformat ==
    /\ pc \in {"encoded", "text"}
    /\ cores' = decode_listformat(value)
    /\ pc' = IF pc = "encoded" THEN "roundtrip" ELSE "decoded"
    /\ UNCHANGED <<ints, value, otherThanCodec>>

NextCodec == EncodeListformat \/ DecodeListformat

SpecCodec == InitCodec /\ [][NextCodec]_vars

\* C1: decoding the encoding of a finite set of non-negative ints returns
\* exactly that set (the empty set included).
C1_RoundTrip ==
    pc = "roundtrip" => cores.exc = "" /\ cores.val = ints

C1_Witness ==
    pc = "roundtrip" /\ Cardinality(ints) >= 3 /\ 0 \in ints /\ 10 \in ints

C1_WitnessEmpty == pc = "roundtrip" /\ ints = {}

\* A token is well formed when it is one integer or a start-end pair of
\* integers (surrounding blanks allowed); anything else is malformed.
IsNatText(s) == AllDigits(Strip(s))

WellFormedToken(t) ==
    \/ IsNatText(t)
    \/ \E i \in 1..Len(t) : /\ t[i] = "-"
                            /\ IsNatText(SubSeq(t, 1, i - 1))
                            /\ IsNatText(SubSeq(t, i + 1, Len(t)))

HasMalformedToken(v) ==
    v # <<>> /\ \E i \in 1..Len(Split(v, <<",">>)) : ~WellFormedToken(Split(v, <<",">>)[i])

\* C7: decode_listformat fails with a parse error for every input that holds a
\* malformed token, and never returns a set for it.
C7_MalformedFails ==
    (pc = "decoded" /\ HasMalformedToken(value)) => cores.exc = "ValueError"

----------------------------------------------------------------------------
(* /proc/stat: read_proc_stat and parse_proc_stat. *)

\* The kernel prints one aggregate line, "cpu" and two blanks before its ten
\* counters, then one line "cpu<i>" per CPU, then lines of other counters.
\* kstat[i + 1] holds the ten counters of CPU i: user, nice, system, idle,
\* iowait, irq, softirq, steal, guest, guest_nice.
RECURSIVE SumField(_, _)
SumField(rows, f) ==
    IF rows = <<>> THEN 0 ELSE rows[1][f] + SumField(Tail(rows), f)

StatCpuLine(i, row) == S_cpu \o Str(i) \o SP \o Join(SP, StrEach(row))

StatText(rows) ==
    S_cpu \o SP \o SP \o Join(SP, [f \in 1..10 |-> Str(SumField(rows, f))]) \o NL
    \o Join(<<>>, [i \in 1..Len(rows) |-> StatCpuLine(i - 1, rows[i]) \o NL])
    \o <<"i", "n", "t", "r", " ", "5", " ", "0">> \o NL
    \o <<"c", "t", "x", "t", " ", "9">> \o NL

read_proc_stat == StatText(kstat)

\* The positions (0-based, as in the code) of the fields the parser reads.
BusyFields == <<1, 2, 3, 6, 7, 8>>

\* int(cpu_stat_fields[k]) for each k read, in the code's order: the first
\* missing field raises IndexError, the first non-number ValueError.
RECURSIVE FieldsError(_, _)
FieldsError(fields, ks) ==
    IF ks = <<>> THEN ""
    ELSE IF Len(fields) < Head(ks) + 1 THEN "IndexError"
    ELSE IF ~IntOk(fields[Head(ks) + 1]) THEN "ValueError"
    ELSE FieldsError(fields, Tail(ks))

\* A sum of every counter of the line, idle time included.
cpu_usage_all_modes(fields) ==
    IntVal(fields[2]) + IntVal(fields[3]) + IntVal(fields[4]) + IntVal(fields[5])
    + IntVal(fields[6]) + IntVal(fields[7]) + IntVal(fields[8]) + IntVal(fields[9])

\* user + nice + system + irq + softirq + steal
cpu_usage(fields) ==
    IntVal(fields[2]) + IntVal(fields[3]) + IntVal(fields[4])
    + IntVal(fields[7]) + IntVal(fields[8]) + IntVal(fields[9])

RECURSIVE ParseStatLines(_, _)
ParseStatLines(lines, usage) ==
    IF lines = <<>> THEN Return(usage)
    ELSE LET line == Head(lines)
             cpu_stat_fields == Split(line, SP)
             cpu_id == SubSeq(cpu_stat_fields[1], 4, Len(cpu_stat_fields[1]))
         IN  IF line = <<>> \/ ~StartsWith(line, S_cpu)
             THEN ParseStatLines(Tail(lines), usage)
             ELSE IF cpu_id = <<>>
             THEN ParseStatLines(Tail(lines), usage)
             ELSE IF ~IntOk(cpu_id) THEN Raise("ValueError")
             ELSE IF FieldsError(cpu_stat_fields, BusyFields) # ""
             THEN Raise(FieldsError(cpu_stat_fields, BusyFields))
             ELSE ParseStatLines(Tail(lines),
                      DictSet(usage, IntVal(cpu_id), cpu_usage(cpu_stat_fields)))

parse_proc_stat(text) == ParseStatLines(Split(text, NL), <<>>)

\* Counter rows: one counter set to 1 or to 12 and the others 0, and a row
\* whose ten counters all differ.
OneHot(p, v) == [f \in 1..10 |-> IF f = p THEN v ELSE 0]

StatRows == { OneHot(p, v) : p \in 1..10, v \in {1, 12} } \cup { [f \in 1..10 |-> f] }

InitStat ==
    /\ IdleCodec /\ IdleMem /\ IdleTopo /\ IdleRdt /\ IdleNuma /\ IdleAsm
    /\ pc = "start"
    /\ kstat \in UNION { [1..n -> StatRows] : n \in 0..MaxStatCpus }
    /\ proc_stat_output = <<>>
    /\ cpus_usage = Return(<<>>)

ReadProcStat ==
    /\ pc = "start"
    /\ proc_stat_output' = read_proc_stat
    /\ pc' = "read"
    /\ UNCHANGED <<kstat, cpus_usage, otherThanStat>>

ParseProcStat ==
    /\ pc = "read"
    /\ cpus_usage' = parse_proc_stat(proc_stat_output)
    /\ pc' = "parsed"
    /\ UNCHANGED <<kstat, proc_stat_output, otherThanStat>>

NextStat == ReadProcStat \/ ParseProcStat

SpecStat == InitStat /\ [][NextStat]_vars

BusyTime(row) == row[1] + row[2] + row[3] + row[6] + row[7] + row[8]

----------------------------------------------------------------------------
(* /proc/meminfo: read_proc_meminfo and parse_proc_meminfo. *)

\* The kernel prints "Key:", blanks, the value and " kB", one counter a line.
\* kmem is the sequence of <<key, value>> it prints.
MeminfoLine(kv) == kv[1] \o <<":">> \o SP \o SP \o SP \o Str(kv[2]) \o SP \o S_kB \o NL

MeminfoText(counters) == Join(<<>>, [i \in 1..Len(counters) |-> MeminfoLine(counters[i])])

read_proc_meminfo == MeminfoText(kmem)

\* int(line.split()[1])
get_value_from_line(line) ==
    IF Len(SplitWs(line)) < 2 THEN Raise("IndexError")
    ELSE IF ~IntOk(SplitWs(line)[2]) THEN Raise("ValueError")
    ELSE Return(IntVal(SplitWs(line)[2]))

\* The loop over the lines; m holds total, free, buffers and cache.
RECURSIVE MeminfoLoop(_, _)
MeminfoLoop(lines, m) ==
    IF lines = <<>> THEN Return(m)
    ELSE LET line == Head(lines)
             which == IF StartsWith(line, S_MemTotal) THEN "total"
                      ELSE IF StartsWith(line, S_MemFree) THEN "free"
                      ELSE IF StartsWith(line, S_Buffers) THEN "buffers"
                      ELSE IF StartsWith(line, S_Cached) THEN "cache"
                      ELSE ""
         IN  IF which = "" THEN MeminfoLoop(Tail(lines), m)
             ELSE IF get_value_from_line(line).exc # "" THEN get_value_from_line(line)
             ELSE MeminfoLoop(Tail(lines),
                      [m EXCEPT ![which] = get_value_from_line(line).val])

MeminfoCounters(text) ==
    MeminfoLoop(Split(text, NL), [total |-> 0, free |-> 0, buffers |-> 0, cache |-> 0])

\* x << 10 of a Python int, which has no width: negative x stays negative.
ShiftLeft10(x) == x * 1024

\* A parser that reports no negative amount.
parse_proc_meminfo_clamped(text) ==
    LET r == MeminfoCounters(text)
        used == r.val.total - r.val.free - r.val.buffers - r.val.cache
    IN  IF r.exc # "" THEN r
        ELSE Return(ShiftLeft10(IF used < 0 THEN 0 ELSE used))

parse_proc_meminfo(text) ==
    LET r == MeminfoCounters(text)
    IN  IF r.exc # "" THEN r
        ELSE Return(ShiftLeft10(r.val.total - r.val.free - r.val.buffers - r.val.cache))

\* The counters of a text: each of the keys, in the kernel's order, is absent
\* or has one of the amounts.
MemKeys == <<S_MemTotal, S_MemFree, S_MemAvailable, S_Buffers, S_Cached, S_SwapCached>>

MemAmounts == { 512 * b : b \in 0..MaxMemBlocks }

\* -1 marks a key the text does not have.
MemChoices == { c \in [1..6 -> {-1} \cup MemAmounts] : c[3] \in {-1, 512} /\ c[6] \in {-1, 512} }

RECURSIVE Present(_, _)
Present(c, i) ==
    IF i > Len(c) THEN <<>>
    ELSE (IF c[i] = -1 THEN <<>> ELSE << <<MemKeys[i], c[i]>> >>) \o Present(c, i + 1)

InitMem ==
    /\ IdleCodec /\ IdleStat /\ IdleTopo /\ IdleRdt /\ IdleNuma /\ IdleAsm
    /\ pc = "start"
    /\ kmem \in { Present(c, 1) : c \in MemChoices }
    /\ proc_meminfo_output = <<>>
    /\ total_memory_used = Return(0)

ReadProcMeminfo ==
    /\ pc = "start"
    /\ proc_meminfo_output' = read_proc_meminfo
    /\ pc' = "read"
    /\ UNCHANGED <<kmem, total_memory_used, otherThanMem>>

ParseProcMeminfo ==
    /\ pc = "read"
    /\ total_memory_used' = parse_proc_meminfo(proc_meminfo_output)
    /\ pc' = "parsed"
    /\ UNCHANGED <<kmem, proc_meminfo_output, otherThanMem>>

NextMem == ReadProcMeminfo \/ ParseProcMeminfo

SpecMem == InitMem /\ [][NextMem]_vars

\* The amount the text gives for a key, zero when the key is not in it.
Counter(key) == IF key \in DictKeys(kmem) THEN DictGet(kmem, key) ELSE 0

----------------------------------------------------------------------------
(* /proc/cpuinfo: collect_topology_information and get_cpu_model. *)

\* The kernel prints one record per logical processor, "key<TAB>: value"
\* lines, and a blank line after every record. cpuinfo[i] is a record
\* [processor, physical_id, core_id, model_name].
CpuinfoLine(key, text) == key \o TAB \o <<":">> \o SP \o text \o NL

CpuinfoRecord(r) ==
    CpuinfoLine(S_processor, Str(r.processor))
    \o CpuinfoLine(S_model_name, r.model_name)
    \o CpuinfoLine(S_physical_id, Str(r.physical_id))
    \o CpuinfoLine(S_core_id, Str(r.core_id))
    \o NL

CpuinfoText(records) == Join(<<>>, [i \in 1..Len(records) |-> CpuinfoRecord(records[i])])

\* filter(None, seq): the empty strings go.
RECURSIVE FilterNonEmpty(_)
FilterNonEmpty(seq) ==
    IF seq = <<>> THEN <<>>
    ELSE (IF Head(seq) = <<>> THEN <<>> ELSE <<Head(seq)>>) \o FilterNonEmpty(Tail(seq))

\* dict([list(map(str.strip, line.split(':'))) for line in proc.split('\n')]):
\* dict() raises ValueError for an item that is not a pair.
RECURSIVE DictOfLines(_, _)
DictOfLines(lines, d) ==
    IF lines = <<>> THEN Return(d)
    ELSE LET parts == Split(Head(lines), <<":">>)
         IN  IF Len(parts) # 2 THEN Raise("ValueError")
             ELSE DictOfLines(Tail(lines), DictSet(d, Strip(parts[1]), Strip(parts[2])))

RECURSIVE ParseProcessors(_, _)
ParseProcessors(procs, acc) ==
    IF procs = <<>> THEN Return(acc)
    ELSE LET d == DictOfLines(Split(Head(procs), NL), <<>>)
         IN  IF d.exc # "" THEN d
             ELSE ParseProcessors(Tail(procs), Append(acc, d.val))

Processors(text) == ParseProcessors(FilterNonEmpty(Split(text, NL \o NL)), <<>>)

\* int(processor[key]): KeyError without the key, ValueError for a non-number.
FieldError(p, key) ==
    IF key \notin DictKeys(p) THEN "KeyError"
    ELSE IF ~IntOk(DictGet(p, key)) THEN "ValueError"
    ELSE ""

RECURSIVE FirstFieldError(_, _)
FirstFieldError(ps, key) ==
    IF ps = <<>> THEN ""
    ELSE IF FieldError(Head(ps), key) # "" THEN FieldError(Head(ps), key)
    ELSE FirstFieldError(Tail(ps), key)

IntField(p, key) == IntVal(DictGet(p, key))

\* sorted(ps, key=...): stable, an element goes after those not greater.
RECURSIVE InsertByField(_, _, _)
InsertByField(sorted, p, key) ==
    IF sorted = <<>> THEN <<p>>
    ELSE IF IntField(sorted[Len(sorted)], key) <= IntField(p, key)
         THEN Append(sorted, p)
         ELSE Append(InsertByField(SubSeq(sorted, 1, Len(sorted) - 1), p, key),
                     sorted[Len(sorted)])

\* The list left in the order of the file.
UnsortedByField(ps, key) == ps

RECURSIVE SortedByField(_, _)
SortedByField(ps, key) ==
    IF ps = <<>> THEN <<>>
    ELSE InsertByField(SortedByField(SubSeq(ps, 1, Len(ps) - 1), key), ps[Len(ps)], key)

\* itertools.groupby: the runs of equal keys, as <<key, run>>.
RECURSIVE GroupRuns(_, _, _)
GroupRuns(ps, key, acc) ==
    IF ps = <<>> THEN acc
    ELSE LET k == IntField(Head(ps), key)
         IN  IF acc # <<>> /\ acc[Len(acc)][1] = k
             THEN GroupRuns(Tail(ps), key,
                      [acc EXCEPT ![Len(acc)] = <<k, Append(@[2], Head(ps))>>])
             ELSE GroupRuns(Tail(ps), key, Append(acc, <<k, <<Head(ps)>> >>))

GroupByField(ps, key) == GroupRuns(ps, key, <<>>)

\* The inner loop: topology[physical_id][core_id] = [int(p['processor']) ...]
RECURSIVE CoreLoop(_, _)
CoreLoop(groups, inner) ==
    IF groups = <<>> THEN Return(inner)
    ELSE LET core_id == Head(groups)[1]
             core_processors == Head(groups)[2]
         IN  IF FirstFieldError(core_processors, S_processor) # ""
             THEN Raise(FirstFieldError(core_processors, S_processor))
             ELSE CoreLoop(Tail(groups),
                      DictSet(inner, core_id,
                          [i \in 1..Len(core_processors) |->
                              IntField(core_processors[i], S_processor)]))

\* The outer loop; topology is a defaultdict(dict).
RECURSIVE SocketLoop(_, _)
SocketLoop(groups, topology) ==
    IF groups = <<>> THEN Return(topology)
    ELSE LET physical_id == Head(groups)[1]
             socket_processors == Head(groups)[2]
             inner == IF physical_id \in DictKeys(topology)
                      THEN DictGet(topology, physical_id) ELSE <<>>
             r == CoreLoop(GroupByField(SortedByField(socket_processors, S_core_id),
                                        S_core_id), inner)
         IN  IF FirstFieldError(socket_processors, S_core_id) # ""
             THEN Raise(FirstFieldError(socket_processors, S_core_id))
             ELSE IF r.exc # "" THEN r
             ELSE SocketLoop(Tail(groups), DictSet(topology, physical_id, r.val))

RECURSIVE SumLens(_)
SumLens(d) == IF d = <<>> THEN 0 ELSE Len(Head(d)[2]) + SumLens(Tail(d))

TopologyOf(text) ==
    LET processors == Processors(text)
        topology == SocketLoop(GroupByField(SortedByField(processors.val, S_physical_id),
                                            S_physical_id), <<>>)
    IN  IF processors.exc # "" THEN processors
        ELSE IF FirstFieldError(processors.val, S_physical_id) # ""
        THEN Raise(FirstFieldError(processors.val, S_physical_id))
        ELSE IF topology.exc # "" THEN topology
        ELSE Return([nr_of_online_cpus |-> Len(processors.val),
                     nr_of_cores |-> SumLens(topology.val),
                     nr_of_sockets |-> Len(topology.val),
                     topology |-> topology.val])

\* Processor ids are those of the online CPUs; socket and core ids have gaps.
ProcessorIds == 0..(MaxRecords - 1)
PhysicalIds == {0, 10}
CoreIds == {1, 4}
ModelA == <<"X", "e", "o", "n", " ", "A">>
ModelB == <<"X", "e", "o", "n", " ", "B">>

CpuRecords(models) == [processor : ProcessorIds, physical_id : PhysicalIds,
                       core_id : CoreIds, model_name : models]

DistinctProcessors(rs) ==
    \A i, j \in 1..Len(rs) : rs[i].processor = rs[j].processor => i = j

InitTopo ==
    /\ IdleCodec /\ IdleStat /\ IdleMem /\ IdleRdt /\ IdleNuma /\ IdleAsm
    /\ pc = "start"
    /\ cpuinfo \in { rs \in UNION { [1..n -> CpuRecords({ModelA})] : n \in 0..MaxRecords } :
                        DistinctProcessors(rs) }
    /\ procinfo = <<>>
    /\ topology_out = Return(<<>>)

CollectTopologyInformation ==
    /\ pc = "start"
    /\ procinfo' = CpuinfoText(cpuinfo)
    /\ topology_out' = TopologyOf(CpuinfoText(cpuinfo))
    /\ pc' = "collected"
    /\ UNCHANGED <<cpuinfo, otherThanTopo>>

NextTopo == CollectTopologyInformation

SpecTopo == InitTopo /\ [][NextTopo]_vars

\* How often cpu stands in the list of socket s and core c (0 without one).
Occurrences(topology, s, c, cpu) ==
    IF s \in DictKeys(topology) /\ c \in DictKeys(DictGet(topology, s))
    THEN Cardinality({ i \in 1..Len(DictGet(DictGet(topology, s), c)) :
                          DictGet(DictGet(topology, s), c)[i] = cpu })
    ELSE 0

\* C6: with pairwise distinct processor ids every record's id stands exactly
\* once in the list of its own socket and core and in no other list; the cpu
\* count is the number of records, the core count the number of distinct
\* (socket, core) pairs, the socket count the number of distinct sockets.
C6_TopologyPartition ==
    pc = "collected" =>
        /\ topology_out.exc = ""
        /\ topology_out.val.nr_of_online_cpus = Len(cpuinfo)
        /\ topology_out.val.nr_of_cores =
               Cardinality({ <<cpuinfo[i].physical_id, cpuinfo[i].core_id>> : i \in 1..Len(cpuinfo) })
        /\ topology_out.val.nr_of_sockets =
               Cardinality({ cpuinfo[i].physical_id : i \in 1..Len(cpuinfo) })
        /\ DictKeys(topology_out.val.topology) = { cpuinfo[i].physical_id : i \in 1..Len(cpuinfo) }
        /\ \A i \in 1..Len(cpuinfo) : \A s \in PhysicalIds : \A c \in CoreIds :
               Occurrences(topology_out.val.topology, s, c, cpuinfo[i].processor)
                   = IF s = cpuinfo[i].physical_id /\ c = cpuinfo[i].core_id THEN 1 ELSE 0
        /\ \A s \in PhysicalIds : \A c \in CoreIds :
               s \in DictKeys(topology_out.val.topology)
               /\ c \in DictKeys(DictGet(topology_out.val.topology, s))
               => \A k \in 1..Len(DictGet(DictGet(topology_out.val.topology, s), c)) :
                      \E i \in 1..Len(cpuinfo) :
                          cpuinfo[i].processor = DictGet(DictGet(topology_out.val.topology, s), c)[k]

\* Socket 10 stands between two records of socket 0 that share a core.
C6_Witness ==
    /\ pc = "collected"
    /\ Len(cpuinfo) = 3
    /\ cpuinfo[1].physical_id = 0 /\ cpuinfo[2].physical_id = 10 /\ cpuinfo[3].physical_id = 0
    /\ cpuinfo[1].core_id = 4 /\ cpuinfo[3].core_id = 4
    /\ topology_out.val.nr_of_cores = 2

----------------------------------------------------------------------------
(* /sys/fs/resctrl: _collect_rdt_information. *)

\* resctrl maps each path that exists under /sys/fs/resctrl to its content.

\* _read_value: open() raises FileNotFoundError for a path that is not there.
read_value(fs, subpath) ==
    IF subpath \notin DOMAIN fs THEN Raise("FileNotFoundError")
    ELSE Return(Strip(fs[subpath]))

\* int(_read_value(subpath))
read_int(fs, subpath) ==
    IF read_value(fs, subpath).exc # "" THEN read_value(fs, subpath)
    ELSE IF ~IntOk(read_value(fs, subpath).val) THEN Raise("ValueError")
    ELSE Return(IntVal(read_value(fs, subpath).val))

Min(a, b) == IF a <= b THEN a ELSE b

\* A count that takes the bandwidth side's number whenever that side is on.
usable_closids_of_mb(cache_enabled, mb_enabled, num_closids, mb_num_closids) ==
    IF cache_enabled /\ mb_enabled THEN Some(Min(num_closids[1], mb_num_closids[1]))
    ELSE IF mb_enabled THEN mb_num_closids
    ELSE num_closids

\* if rdt_cache_control_enabled and rdt_mb_control_enabled:
\*     num_closids = min(num_closids, mb_num_closids)
usable_closids(cache_enabled, mb_enabled, num_closids, mb_num_closids) ==
    IF cache_enabled /\ mb_enabled THEN Some(Min(num_closids[1], mb_num_closids[1]))
    ELSE num_closids

\* The first of the reads that raises, in the order of the code, or "".
FirstRaise(results) ==
    IF \A i \in 1..Len(results) : results[i].exc = "" THEN ""
    ELSE results[CHOOSE i \in 1..Len(results) :
                    results[i].exc # "" /\ \A j \in 1..(i - 1) : results[j].exc = ""].exc

collect_rdt_information(fs) ==
    LET schemata_body == read_value(fs, "schemata")
        rdt_cache_control_enabled == Contains(schemata_body.val, <<"L", "3">>)
        rdt_mb_control_enabled == Contains(schemata_body.val, <<"M", "B", ":">>)
        l3 == IF rdt_cache_control_enabled
              THEN <<read_value(fs, "info/L3/cbm_mask"),
                     read_value(fs, "info/L3/min_cbm_bits"),
                     read_int(fs, "info/L3/num_closids")>>
              ELSE <<>>
        mb == IF rdt_mb_control_enabled
              THEN <<read_int(fs, "info/MB/bandwidth_gran"),
                     read_int(fs, "info/MB/min_bandwidth"),
                     read_int(fs, "info/MB/num_closids")>>
              ELSE <<>>
    IN  IF schemata_body.exc # "" THEN schemata_body
        ELSE IF FirstRaise(l3 \o mb) # "" THEN Raise(FirstRaise(l3 \o mb))
        ELSE Return([
            rdt_cache_monitoring_enabled |-> "mon_data/mon_L3_00/llc_occupancy" \in DOMAIN fs,
            rdt_mb_monitoring_enabled |-> "mon_data/mon_L3_00/mbm_total_bytes" \in DOMAIN fs,
            rdt_cache_control_enabled |-> rdt_cache_control_enabled,
            rdt_mb_control_enabled |-> rdt_mb_control_enabled,
            cbm_mask |-> IF rdt_cache_control_enabled THEN Some(l3[1].val) ELSE None,
            min_cbm_bits |-> IF rdt_cache_control_enabled THEN Some(l3[2].val) ELSE None,
            num_closids |-> usable_closids(rdt_cache_control_enabled, rdt_mb_control_enabled,
                                IF rdt_cache_control_enabled THEN Some(l3[3].val) ELSE None,
                                IF rdt_mb_control_enabled THEN Some(mb[3].val) ELSE None),
            mb_bandwidth_gran |-> IF rdt_mb_control_enabled THEN Some(mb[1].val) ELSE None,
            mb_min_bandwidth |-> IF rdt_mb_control_enabled THEN Some(mb[2].val) ELSE None])

\* The trees the kernel shows. The schemata file has one line per resource
\* under allocation; info/L3 is there with an "L3:" line and info/MB with an
\* "MB:" line. With code and data prioritization the lines are "L3CODE:" and
\* "L3DATA:" and the directories info/L3CODE and info/L3DATA.
MonFiles(llc, mbm) ==
    [p \in (IF llc THEN {"mon_data/mon_L3_00/llc_occupancy"} ELSE {})
           \cup (IF mbm THEN {"mon_data/mon_L3_00/mbm_total_bytes"} ELSE {}) |-> <<"0">> \o NL]

L3Files(mask, n) ==
    [p \in {"info/L3/cbm_mask", "info/L3/min_cbm_bits", "info/L3/num_closids"} |->
        IF p = "info/L3/cbm_mask" THEN mask \o NL
        ELSE IF p = "info/L3/min_cbm_bits" THEN <<"1">> \o NL
        ELSE Str(n) \o NL]

MBFiles(n) ==
    [p \in {"info/MB/bandwidth_gran", "info/MB/min_bandwidth", "info/MB/num_closids"} |->
        IF p = "info/MB/num_closids" THEN Str(n) \o NL ELSE <<"1", "0">> \o NL]

SchemataFile(text) == [p \in {"schemata"} |-> text]

L2Line == <<"L", "2", ":", "0", "=", "f">> \o NL
L3Line(mask) == <<"L", "3", ":", "0", "=">> \o mask \o NL
MBLine == <<"M", "B", ":", "0", "=", "1", "0", "0">> \o NL
CdpLines == <<"L", "3", "D", "A", "T", "A", ":", "0", "=", "f">> \o NL
            \o <<"L", "3", "C", "O", "D", "E", ":", "0", "=", "f">> \o NL

CbmMasks == { <<"f">>, <<"7", "f", "f">> }

ResctrlTrees ==
    { mon @@ tree :
        mon \in { MonFiles(llc, mbm) : llc \in BOOLEAN, mbm \in BOOLEAN },
        tree \in
            { SchemataFile(L2Line), SchemataFile(CdpLines) }
            \cup { SchemataFile(L3Line(m)) @@ L3Files(m, n) : m \in CbmMasks, n \in 1..MaxClosids }
            \cup { SchemataFile(MBLine) @@ MBFiles(n) : n \in 1..MaxClosids }
            \cup { SchemataFile(MBLine \o L3Line(m)) @@ L3Files(m, n) @@ MBFiles(k) :
                       m \in CbmMasks, n \in 1..MaxClosids, k \in 1..MaxClosids } }

InitRdt ==
    /\ IdleCodec /\ IdleStat /\ IdleMem /\ IdleTopo /\ IdleNuma /\ IdleAsm
    /\ pc = "start"
    /\ resctrl \in ResctrlTrees
    /\ rdt_information = Return(<<>>)

CollectRdtInformation ==
    /\ pc = "start"
    /\ rdt_information' = collect_rdt_information(resctrl)
    /\ pc' = "collected"
    /\ UNCHANGED <<resctrl, otherThanRdt>>

NextRdt == CollectRdtInformation

SpecRdt == InitRdt /\ [][NextRdt]_vars

\* C3: in every RDTInformation returned, cbm_mask, min_cbm_bits and
\* num_closids are present exactly when rdt_cache_control_enabled is true, and
\* mb_bandwidth_gran and mb_min_bandwidth exactly when rdt_mb_control_enabled
\* is true, the flags being those of 'L3' and 'MB:' in the schemata text.
C3_ParamsIffEnabled ==
    (pc = "collected" /\ rdt_information.exc = "") =>
        LET r == rdt_information.val
        IN  /\ r.rdt_cache_control_enabled = Contains(resctrl["schemata"], <<"L", "3">>)
            /\ r.rdt_mb_control_enabled = Contains(resctrl["schemata"], <<"M", "B", ":">>)
            /\ (r.cbm_mask # None) = r.rdt_cache_control_enabled
            /\ (r.min_cbm_bits # None) = r.rdt_cache_control_enabled
            /\ (r.num_closids # None) = r.rdt_cache_control_enabled
            /\ (r.mb_bandwidth_gran # None) = r.rdt_mb_control_enabled
            /\ (r.mb_min_bandwidth # None) = r.rdt_mb_control_enabled

\* 'L3' without 'MB:'.
C3_Witness ==
    /\ pc = "collected" /\ rdt_information.exc = ""
    /\ rdt_information.val.rdt_cache_control_enabled
    /\ ~rdt_information.val.rdt_mb_control_enabled
    /\ rdt_information.val.cbm_mask = Some(<<"7", "f", "f">>)
    /\ rdt_information.val.mb_bandwidth_gran = None

C3_WitnessMbOnly ==
    /\ pc = "collected" /\ rdt_information.exc = ""
    /\ ~rdt_information.val.rdt_cache_control_enabled
    /\ rdt_information.val.rdt_mb_control_enabled
    /\ rdt_information.val.num_closids = None

C3_WitnessBoth ==
    /\ pc = "collected" /\ rdt_information.exc = ""
    /\ rdt_information.val.rdt_cache_control_enabled
    /\ rdt_information.val.rdt_mb_control_enabled
    /\ rdt_information.val.num_closids = Some(1)

C3_WitnessNeither ==
    /\ pc = "collected" /\ rdt_information.exc = ""
    /\ ~rdt_information.val.rdt_cache_control_enabled
    /\ ~rdt_information.val.rdt_mb_control_enabled

----------------------------------------------------------------------------
(* /sys/devices/system/node: parse_node_meminfo and parse_node_cpus. *)

S_node == <<"n", "o", "d", "e">>
S_Node == <<"N", "o", "d", "e">>

\* The kernel's list format of a set: the runs of consecutive ids as
\* "first-last", single ids alone, and a newline after the list.
RECURSIVE ListRuns(_)
ListRuns(S) ==
    IF S = {} THEN <<>>
    ELSE LET first == CHOOSE x \in S : \A y \in S : x <= y
             last == CHOOSE x \in S : /\ \A y \in first..x : y \in S
                                      /\ x + 1 \notin S
                                      /\ x >= first
         IN  <<IF first = last THEN Str(first) ELSE Str(first) \o <<"-">> \o Str(last)>>
             \o ListRuns(S \ (first..last))

CpulistText(S) == Join(<<",">>, ListRuns(S)) \o NL

\* node<n>/meminfo: "Node <n> <Key>: <amount> kB" lines, and lines of four
\* fields for the huge pages.
NodeMeminfoLine(n, key, amount) ==
    S_Node \o SP \o Str(n) \o SP \o key \o <<":">> \o SP \o SP \o Str(amount) \o SP \o S_kB \o NL

NodeMeminfoText(n, node) ==
    NodeMeminfoLine(n, S_MemTotal, node.total)
    \o NodeMeminfoLine(n, S_MemFree, node.free)
    \o NodeMeminfoLine(n, S_MemUsed, node.total - node.free)
    \o S_Node \o SP \o Str(n) \o SP \o <<"H", "u", "g", "e", "P", "a", "g", "e", "s", ":">>
       \o SP \o <<"0">> \o NL

\* What os.listdir shows of the directory: its entries, each with the files
\* under it; the entries that are not node directories have none.
NodeEntry(n, node) == [name |-> S_node \o Str(n),
                       meminfo |-> Some(NodeMeminfoText(n, node)),
                       cpulist |-> Some(CpulistText(node.cpus))]

PlainEntry(name) == [name |-> name, meminfo |-> None, cpulist |-> None]

S_possible == <<"p", "o", "s", "s", "i", "b", "l", "e">>

RECURSIVE NodeEntries(_, _)
NodeEntries(nodes, order) ==
    IF order = <<>> THEN <<>>
    ELSE <<NodeEntry(Head(order), nodes[Head(order)])>> \o NodeEntries(nodes, Tail(order))

Reverse(seq) == [i \in 1..Len(seq) |-> seq[Len(seq) + 1 - i]]

\* os.listdir gives the entries in an order of its own: ascending and
\* descending node ids are modelled.
Listings(nodes) ==
    { <<PlainEntry(S_possible)>> \o NodeEntries(nodes, SortedSet(DOMAIN nodes)),
      NodeEntries(nodes, Reverse(SortedSet(DOMAIN nodes))) \o <<PlainEntry(S_possible)>> }

\* The lines of one meminfo file; fu is <<node_free, node_used>>.
RECURSIVE NodeMeminfoLines(_, _)
NodeMeminfoLines(lines, fu) ==
    IF lines = <<>> THEN Return(fu)
    ELSE LET s == SplitWs(Head(lines))
             is_free == s[3] = S_MemFree \o <<":">>
             is_used == s[3] = S_MemUsed \o <<":">>
         IN  IF Len(s) # 5 THEN NodeMeminfoLines(Tail(lines), fu)
             ELSE IF (is_free \/ is_used) /\ (~IntOk(s[2]) \/ ~IntOk(s[4]))
             THEN Raise("ValueError")
             ELSE NodeMeminfoLines(Tail(lines),
                      <<IF is_free THEN DictSet(fu[1], IntVal(s[2]), ShiftLeft10(IntVal(s[4])))
                        ELSE fu[1],
                        IF is_used THEN DictSet(fu[2], IntVal(s[2]), ShiftLeft10(IntVal(s[4])))
                        ELSE fu[2]>>)

\* f.readlines(): the lines of the file (their newlines do not reach a field).
ReadLines(text) == FilterNonEmpty(Split(text, NL))

RECURSIVE parse_node_meminfo_loop(_, _)
parse_node_meminfo_loop(listing, fu) ==
    IF listing = <<>> THEN Return(fu)
    ELSE LET nodedir == Head(listing)
             r == NodeMeminfoLines(ReadLines(nodedir.meminfo[1]), fu)
         IN  IF ~StartsWith(nodedir.name, S_node)
             THEN parse_node_meminfo_loop(Tail(listing), fu)
             ELSE IF nodedir.meminfo = None THEN Raise("FileNotFoundError")
             ELSE IF r.exc # "" THEN r
             ELSE parse_node_meminfo_loop(Tail(listing), r.val)

parse_node_meminfo(listing) == parse_node_meminfo_loop(listing, <<<<>>, <<>>>>)

\* An id taken from the first character after "node" alone.
node_id_first_digit(nodedir) == SubSeq(nodedir, 5, 5)

\* nodedir[4:]
node_id_text(nodedir) == SubSeq(nodedir, 5, Len(nodedir))

RECURSIVE parse_node_cpus_loop(_, _)
parse_node_cpus_loop(listing, cpus) ==
    IF listing = <<>> THEN Return(cpus)
    ELSE LET nodedir == Head(listing)
             r == decode_listformat(nodedir.cpulist[1])
         IN  IF ~StartsWith(nodedir.name, S_node)
             THEN parse_node_cpus_loop(Tail(listing), cpus)
             ELSE IF ~IntOk(node_id_text(nodedir.name)) THEN Raise("ValueError")
             ELSE IF nodedir.cpulist = None THEN Raise("FileNotFoundError")
             ELSE IF r.exc # "" THEN r
             ELSE parse_node_cpus_loop(Tail(listing),
                      DictSet(cpus, IntVal(node_id_text(nodedir.name)), r.val))

parse_node_cpus(listing) == parse_node_cpus_loop(listing, <<>>)

\* The nodes of a machine: ids with a gap and two digits, free memory in
\* blocks of 512 kB out of a total of 2048 kB, and CPU sets with runs. A node
\* of memory alone has no CPU, and its cpulist is an empty line.
NodeIds == {0, 1, 10}
NodeCpuSets == { {}, {0}, {0, 1, 2, 3}, {2, 3, 8, 11} }
NumaNodes == [total : {2048}, free : { 512 * b : b \in 0..MaxNodeBlocks }, cpus : NodeCpuSets]

InitNuma ==
    /\ IdleCodec /\ IdleStat /\ IdleMem /\ IdleTopo /\ IdleRdt /\ IdleAsm
    /\ pc = "start"
    /\ sysfs_nodes \in UNION { [ids -> NumaNodes] : ids \in SUBSET NodeIds }
    /\ node_meminfo = Return(<<>>)
    /\ node_cpus = Return(<<>>)

ParseNodeMeminfo ==
    /\ pc = "start"
    /\ \E listing \in Listings(sysfs_nodes) : node_meminfo' = parse_node_meminfo(listing)
    /\ pc' = "meminfo"
    /\ UNCHANGED <<sysfs_nodes, node_cpus, otherThanNuma>>

ParseNodeCpus ==
    /\ pc = "meminfo"
    /\ \E listing \in Listings(sysfs_nodes) : node_cpus' = parse_node_cpus(listing)
    /\ pc' = "cpus"
    /\ UNCHANGED <<sysfs_nodes, node_meminfo, otherThanNuma>>

NextNuma == ParseNodeMeminfo \/ ParseNodeCpus

SpecNuma == InitNuma /\ [][NextNuma]_vars

----------------------------------------------------------------------------
(* get_cpu_model, create_metrics, create_labels. *)

\* re.search("model name\\s*:\\s*(.*)\\s*$", line): the leftmost place where
\* "model name", blanks and a colon stand; group 1 is what follows the colon
\* and the blanks after it, to the end of the line.
AfterModelName(line, i) == LStrip(SubSeq(line, i + Len(S_model_name), Len(line)))

ModelNameAt(line, i) ==
    /\ Occurs(line, S_model_name, i)
    /\ AfterModelName(line, i) # <<>>
    /\ Head(AfterModelName(line, i)) = ":"

\* The first line that starts with "model name" decides: its group 1, or
\* "unknown_cpu_model" when the pattern does not match it or no line starts so.
get_cpu_model(text) ==
    LET lines == Split(text, NL)
    IN  IF \A k \in 1..Len(lines) : ~StartsWith(lines[k], S_model_name)
        THEN S_unknown_cpu_model
        ELSE LET line == lines[CHOOSE k \in 1..Len(lines) :
                               /\ StartsWith(lines[k], S_model_name)
                               /\ \A j \in 1..(k - 1) : ~StartsWith(lines[j], S_model_name)]
             IN  IF \A i \in 1..Len(line) : ~ModelNameAt(line, i)
                 THEN S_unknown_cpu_model
                 ELSE LET i == CHOOSE k \in 1..Len(line) :
                                   ModelNameAt(line, k) /\ \A j \in 1..(k - 1) : ~ModelNameAt(line, j)
                      IN  LStrip(Tail(AfterModelName(line, i)))

\* Metric.create_metric_with_metadata: a point with its name, value and labels.
create_metric_with_metadata(name, val, lbls) == [name |-> name, value |-> val, labels |-> lbls]

\* A list whose per-CPU points are labelled with their place in the mapping.
create_metrics_by_position(p) ==
    <<create_metric_with_metadata("MEM_USAGE", p.total_memory_used, <<>>)>>
    \o [i \in 1..Len(p.cpus_usage) |->
           create_metric_with_metadata("CPU_USAGE_PER_CPU", p.cpus_usage[i][2],
                                       << <<"cpu", Str(i - 1)>> >>)]

create_metrics(p) ==
    <<create_metric_with_metadata("MEM_USAGE", p.total_memory_used, <<>>)>>
    \o [i \in 1..Len(p.cpus_usage) |->
           create_metric_with_metadata("CPU_USAGE_PER_CPU", p.cpus_usage[i][2],
                                       << <<"cpu", Str(p.cpus_usage[i][1])>> >>)]

\* socket.gethostname() and get_wca_version() of the host.
Hostname == <<"h", "o", "s", "t", "1">>
WcaVersion == <<"u", "n", "k", "n", "o", "w", "n", "_", "v", "e", "r", "s", "i", "o", "n">>

\* create_labels reads the CPU model itself: cpuinfo_text is /proc/cpuinfo
\* as it is when create_labels runs.
create_labels(p, cpuinfo_text) ==
    << <<"sockets", Str(p.sockets)>>, <<"cores", Str(p.cores)>>, <<"cpus", Str(p.cpus)>>,
       <<"host", Hostname>>, <<"wca_version", WcaVersion>>,
       <<"cpu_model", get_cpu_model(cpuinfo_text)>> >>

Platform(topo, model, usage, used, free_used, ncpus, rdt) ==
    [sockets |-> topo.nr_of_sockets, cores |-> topo.nr_of_cores, cpus |-> topo.nr_of_online_cpus,
     topology |-> topo.topology, cpu_model |-> model, cpus_usage |-> usage,
     total_memory_used |-> used, timestamp |-> 0, rdt_information |-> rdt,
     node_memory_free |-> free_used[1], node_memory_used |-> free_used[2], node_cpus |-> ncpus]

----------------------------------------------------------------------------
(* create_metrics applied to Platforms that satisfy their invariants. *)

\* The mappings of n CPUs: distinct ids in any order, each with a busy time.
UsageMaps ==
    { u \in UNION { [1..n -> (0..MaxMetricCpus) \X {0, 7}] : n \in 0..MaxMetricCpus } :
          \A i, j \in 1..Len(u) : u[i][1] = u[j][1] => i = j }

\* One socket with one core that holds every CPU of the mapping.
TopologyFor(u) ==
    [nr_of_online_cpus |-> Len(u),
     nr_of_cores |-> IF u = <<>> THEN 0 ELSE 1,
     nr_of_sockets |-> IF u = <<>> THEN 0 ELSE 1,
     topology |-> IF u = <<>> THEN <<>>
                  ELSE << <<0, << <<0, [i \in 1..Len(u) |-> u[i][1]]>> >> >> >>]

ValidPlatforms ==
    { Platform(TopologyFor(u), ModelA, u, used, << <<>>, <<>> >>, <<>>, None) :
          u \in UsageMaps, used \in {-1024, 0, 4096} }

InitMetrics ==
    /\ IdleCodec /\ IdleStat /\ IdleMem /\ IdleTopo /\ IdleRdt /\ IdleNuma
    /\ pc = "metrics"
    /\ rdt_enabled = FALSE
    /\ platform \in ValidPlatforms
    /\ platform_metrics = <<>>
    /\ labels = <<>>
    /\ result = [exc |-> "", val |-> None]

CreateMetrics ==
    /\ pc = "metrics"
    /\ platform_metrics' = create_metrics(platform)
    /\ pc' = "labels"
    /\ UNCHANGED <<rdt_enabled, platform, labels, result, otherThanAsm>>

NextMetrics == CreateMetrics

SpecMetrics == InitMetrics /\ [][NextMetrics]_vars

----------------------------------------------------------------------------
(* collect_platform_information, one step per call it makes, on a machine   *)
(* whose CPUs go on and off line while it runs.                             *)

\* The CPUs of the machine: two threads of one socket and a CPU of another
\* socket with another model. /proc/cpuinfo shows the CPUs on line.
Machine ==
    << [processor |-> 0, physical_id |-> 0, core_id |-> 1, model_name |-> ModelA],
       [processor |-> 1, physical_id |-> 0, core_id |-> 1, model_name |-> ModelA],
       [processor |-> 2, physical_id |-> 10, core_id |-> 4, model_name |-> ModelB] >>

RECURSIVE OnlineRecords(_, _)
OnlineRecords(online, i) ==
    IF i > Len(Machine) THEN <<>>
    ELSE (IF Machine[i].processor \in online THEN <<Machine[i]>> ELSE <<>>)
         \o OnlineRecords(online, i + 1)

OnlineSets == (SUBSET { Machine[i].processor : i \in 1..Len(Machine) }) \ {{}}

OnlineOf(records) == { records[i].processor : i \in 1..Len(records) }

\* The other files of the machine, as the kernel writes them.
CollectStatRow == [f \in 1..10 |-> f]
CollectMem == << <<S_MemTotal, 2048>>, <<S_MemFree, 512>>, <<S_Buffers, 0>>, <<S_Cached, 512>> >>
CollectNodes == [n \in {0, 1} |-> [total |-> 2048, free |-> 512,
                                   cpus |-> IF n = 0 THEN {0, 1} ELSE {2}]]
CollectResctrl ==
    MonFiles(TRUE, FALSE) @@ SchemataFile(MBLine \o L3Line(<<"f">>))
    @@ L3Files(<<"f">>, 2) @@ MBFiles(1)

Pending == [exc |-> "", val |-> None]
Failed(e) == [exc |-> e, val |-> None]

InitCollect ==
    /\ IdleCodec
    /\ pc = "topology"
    /\ rdt_enabled \in BOOLEAN
    /\ cpuinfo \in { OnlineRecords(on, 1) : on \in OnlineSets }
    /\ kstat \in UNION { [1..n -> {CollectStatRow}] : n \in 1..Len(Machine) }
    /\ kmem = CollectMem
    /\ sysfs_nodes = CollectNodes
    /\ resctrl = CollectResctrl
    /\ procinfo = <<>> /\ topology_out = Return(<<>>)
    /\ rdt_information = Return(<<>>)
    /\ proc_stat_output = <<>> /\ cpus_usage = Return(<<>>)
    /\ proc_meminfo_output = <<>> /\ total_memory_used = Return(0)
    /\ node_meminfo = Return(<<>>) /\ node_cpus = Return(<<>>)
    /\ platform = <<>> /\ platform_metrics = <<>> /\ labels = <<>>
    /\ result = Pending

\* A CPU goes off line or comes on line; at least one stays on line.
Hotplug ==
    /\ pc \notin {"done", "failed"}
    /\ \E cpu \in OnlineOf(Machine) :
           LET online == IF cpu \in OnlineOf(cpuinfo) THEN OnlineOf(cpuinfo) \ {cpu}
                         ELSE OnlineOf(cpuinfo) \cup {cpu}
           IN  online # {} /\ cpuinfo' = OnlineRecords(online, 1)
    /\ UNCHANGED <<pc, procinfo, topology_out, codecVars, statVars, memVars, rdtVars,
                   numaVars, asmVars>>

\* Where the call goes after a step: on, or out with the exception raised.
Goes(outcome, next) ==
    IF outcome.exc = "" THEN pc' = next /\ UNCHANGED result
    ELSE pc' = "failed" /\ result' = Failed(outcome.exc)

\* nr_of_cpus, nr_of_cores, no_of_sockets, topology = collect_topology_information()
CollectTopology ==
    /\ pc = "topology"
    /\ procinfo' = CpuinfoText(cpuinfo)
    /\ topology_out' = TopologyOf(CpuinfoText(cpuinfo))
    /\ Goes(topology_out', "rdt")
    /\ UNCHANGED <<cpuinfo, rdt_enabled, platform, platform_metrics, labels,
                   codecVars, statVars, memVars, rdtVars, numaVars>>

\* rdt_information = _collect_rdt_information() if rdt_enabled else None
CollectRdt ==
    /\ pc = "rdt"
    /\ rdt_information' = IF ~rdt_enabled THEN Return(None)
                          ELSE IF collect_rdt_information(resctrl).exc # ""
                          THEN collect_rdt_information(resctrl)
                          ELSE Return(Some(collect_rdt_information(resctrl).val))
    /\ Goes(rdt_information', "stat")
    /\ UNCHANGED <<resctrl, rdt_enabled, platform, platform_metrics, labels,
                   codecVars, statVars, memVars, topoVars, numaVars>>

\* cpus_usage = parse_proc_stat(read_proc_stat())
CollectCpusUsage ==
    /\ pc = "stat"
    /\ proc_stat_output' = read_proc_stat
    /\ cpus_usage' = parse_proc_stat(read_proc_stat)
    /\ Goes(cpus_usage', "meminfo")
    /\ UNCHANGED <<kstat, rdt_enabled, platform, platform_metrics, labels,
                   codecVars, memVars, topoVars, rdtVars, numaVars>>

\* total_memory_used = parse_proc_meminfo(read_proc_meminfo())
CollectMemoryUsed ==
    /\ pc = "meminfo"
    /\ proc_meminfo_output' = read_proc_meminfo
    /\ total_memory_used' = parse_proc_meminfo(read_proc_meminfo)
    /\ Goes(total_memory_used', "node_meminfo")
    /\ UNCHANGED <<kmem, rdt_enabled, platform, platform_metrics, labels,
                   codecVars, statVars, topoVars, rdtVars, numaVars>>

\* node_free, node_used = parse_node_meminfo()
CollectNodeMeminfo ==
    /\ pc = "node_meminfo"
    /\ \E listing \in Listings(sysfs_nodes) : node_meminfo' = parse_node_meminfo(listing)
    /\ Goes(node_meminfo', "platform")
    /\ UNCHANGED <<sysfs_nodes, node_cpus, rdt_enabled, platform, platform_metrics, labels,
                   codecVars, statVars, memVars, topoVars, rdtVars>>

\* platform = Platform(..., cpu_model=get_cpu_model(), ..., node_cpus=parse_node_cpus())
BuildPlatform ==
    /\ pc = "platform"
    /\ \E listing \in Listings(sysfs_nodes) : node_cpus' = parse_node_cpus(listing)
    /\ platform' = IF node_cpus'.exc # "" THEN platform
                   ELSE Platform(topology_out.val, get_cpu_model(CpuinfoText(cpuinfo)),
                                 cpus_usage.val, total_memory_used.val, node_meminfo.val,
                                 node_cpus'.val, rdt_information.val)
    /\ Goes(node_cpus', "assert")
    /\ UNCHANGED <<sysfs_nodes, node_meminfo, rdt_enabled, platform_metrics, labels,
                   codecVars, statVars, memVars, topoVars, rdtVars>>

\* A build that runs no assert statement.
consistent_unchecked(p) == TRUE

\* len(platform.cpus_usage) == platform.cpus
consistent(p) == Len(p.cpus_usage) = p.cpus

\* assert ..., "Inconsistency in cpu data returned by kernel"
AssertConsistent ==
    /\ pc = "assert"
    /\ Goes(IF consistent(platform) THEN Return(TRUE) ELSE Raise("AssertionError"), "metrics")
    /\ UNCHANGED <<rdt_enabled, platform, platform_metrics, labels, otherThanAsm>>

\* return platform, create_metrics(platform), create_labels(platform)
CreateLabelsAndReturn ==
    /\ pc = "labels"
    /\ labels' = create_labels(platform, CpuinfoText(cpuinfo))
    /\ result' = Return(Some(<<platform, platform_metrics, labels'>>))
    /\ pc' = "done"
    /\ UNCHANGED <<rdt_enabled, platform, platform_metrics, otherThanAsm>>

NextCollect ==
    \/ Hotplug
    \/ CollectTopology
    \/ CollectRdt
    \/ CollectCpusUsage
    \/ CollectMemoryUsed
    \/ CollectNodeMeminfo
    \/ BuildPlatform
    \/ AssertConsistent
    \/ CreateMetrics
    \/ CreateLabelsAndReturn

SpecCollect == InitCollect /\ [][NextCollect]_vars

\* The per-CPU lines of a CPU statistics text, and the records of a
\* processor-descriptor text.
PerCpuLines(text) ==
    Cardinality({ i \in 1..Len(Split(text, NL)) :
                     /\ StartsWith(Split(text, NL)[i], S_cpu)
                     /\ Len(Split(text, NL)[i]) > Len(S_cpu)
                     /\ IsDigit(Split(text, NL)[i][Len(S_cpu) + 1]) })

ProcessorRecords(text) ==
    Cardinality({ i \in 1..Len(Split(text, NL)) : StartsWith(Split(text, NL)[i], S_processor) })

StatParsed == pc \in {"meminfo", "node_meminfo", "platform", "assert", "metrics", "labels",
                      "done", "failed"} /\ proc_stat_output # <<>>

\* C2: a Platform is returned only if its cpus_usage has as many entries as
\* its cpus count; when the per-CPU lines parsed from the CPU statistics
\* differ in number from the processor records, the call ends in the
\* consistency error and returns no Platform, measurement list or tag map.
C2_ConsistencyCheck ==
    /\ pc = "done" =>
           /\ result.exc = "" /\ result.val # None
           /\ Len(result.val[1][1].cpus_usage) = result.val[1][1].cpus
    /\ (StatParsed /\ PerCpuLines(proc_stat_output) # ProcessorRecords(procinfo)) =>
           /\ pc \notin {"metrics", "labels", "done"}
           /\ pc = "failed" => result = Failed("AssertionError")
    /\ pc = "failed" => result.val = None /\ platform_metrics = <<>> /\ labels = <<>>

C2_Witness ==
    /\ pc = "failed" /\ result = Failed("AssertionError")
    /\ PerCpuLines(proc_stat_output) = 3 /\ ProcessorRecords(procinfo) = 2
    /\ platform # <<>> /\ platform.cpus = 2 /\ Len(platform.cpus_usage) = 3

C2_WitnessReturned ==
    /\ pc = "done" /\ result.val # None
    /\ PerCpuLines(proc_stat_output) = 2 /\ ProcessorRecords(procinfo) = 2

\* C10: the CPU model is read once, from the text the topology collector
\* parsed: the cpu_model of the Platform returned and the 'cpu_model' of the
\* tag map returned are equal, and both are the model of that text, even if
\* /proc/cpuinfo changes while the call runs.
C10_ModelReadOnce ==
    pc = "done" =>
        /\ platform.cpu_model = DictGet(labels, "cpu_model")
        /\ platform.cpu_model = get_cpu_model(procinfo)
        /\ DictGet(labels, "cpu_model") = get_cpu_model(procinfo)

====
